---- MODULE Spec2Model ----
(***************************************************************************)
(* Scoring engine of the persona summarisation evaluator:                  *)
(*   src/src/text_utils.py, src/src/style_features.py,                     *)
(*   src/src/content_metrics.py, src/src/eval_runner.py,                   *)
(*   src/src/io_utils.py.                                                  *)
(*                                                                         *)
(* Real numbers are exact fractions with a fixed denominator:              *)
(*   a sub-score s is the integer s * ScoreGrid,                           *)
(*   content_quality is the integer cq * CqDen,                            *)
(*   overall_quality is the integer oq * OqDen,                            *)
(*   a feature f is the integer floor(f * FeatScale),                      *)
(*   a mean or median m is the integer m * MeanDen,                        *)
(*   a standard deviation is its square, times MeanDen.                    *)
(***************************************************************************)
EXTENDS Integers, Sequences, FiniteSets, TLC

VARIABLES
    corpus,            \* file system: persona id -> corpus file (Missing, or its '\n\n' chunks)
    cache,             \* file system: outputs/persona_centroids.json (Missing, or persona -> list)
    use_style,         \* StyleAnalyzer.style_config['use_stylometric_similarity']
    centroids,         \* StyleAnalyzer.centroids
    use_rouge,         \* ContentMetricsCalculator.content_config['use_rouge']
    use_bertscore,     \* ContentMetricsCalculator.content_config['use_bertscore']
    use_bleurt,        \* ContentMetricsCalculator.content_config['use_bleurt']
    bertscore_model,   \* ContentMetricsCalculator._bertscore_model (and _bertscore_tokenizer)
    bleurt_scorer,     \* ContentMetricsCalculator.bleurt_scorer
    loads,             \* per sub-scorer, the outcomes of the model loads tried in this process
    results,           \* main's list of result rows
    text_in,           \* the text a caller holds for extract_stylometric_features
    data_dir,          \* file system: the data directory (Missing, or file name -> file)
    main,              \* main(): its position, and its locals records, i and result
    last,              \* the last call made and what it returned
    everBuilt,         \* a build_persona_centroids call has completed in this process
    skipped,           \* personas the most recent corpus-reading build skipped
    prevLoad,          \* what the directly preceding unforced build over a cache file returned
    persona_config,    \* StyleAnalyzer.personas: the persona ids of config['personas']
    written            \* the map the newest corpus-reading build returned, while its cache file lasts

vars == <<corpus, cache, use_style, centroids, use_rouge, use_bertscore, use_bleurt,
          bertscore_model, bleurt_scorer, loads, results, text_in, data_dir, main,
          last, everBuilt,
          skipped, prevLoad, persona_config, written>>

styleVars == <<corpus, cache, use_style, centroids, everBuilt, skipped, prevLoad,
               persona_config, written>>
contentVars == <<use_rouge, use_bertscore, use_bleurt, bertscore_model, bleurt_scorer, loads>>

-----------------------------------------------------------------------------
(* Bounds and program constants *)

ScoreGrid == 2          \* sub-scores are multiples of 1/ScoreGrid
FeatScale == 1000       \* features are kept to 1/FeatScale
MaxTokens == 3          \* longest text, in tokens, of the enumerated input texts
MaxLoadsKept == 2       \* load outcomes remembered per sub-scorer
MaxResults == 4         \* longest list of result rows

NumFeatures == 10
SentLenNorm == 50
GradeNorm == 20
WordLenNorm == 10
PunctScale == 100

\* Optional values: Python's None, or a value
None == [isNone |-> TRUE]
Some(x) == [isNone |-> FALSE, val |-> x]

\* Files: a path that does not exist, or a file and its content
Missing == [exists |-> FALSE]
File(content) == [exists |-> TRUE, content |-> content]

Max(a, b) == IF a >= b THEN a ELSE b
Min(a, b) == IF a <= b THEN a ELSE b

\* sum(...) of a sequence of numbers, by halves
RECURSIVE SumSeq(_)
SumSeq(s) ==
    IF Len(s) = 0 THEN 0
    ELSE IF Len(s) = 1 THEN s[1]
    ELSE SumSeq(SubSeq(s, 1, Len(s) \div 2)) + SumSeq(SubSeq(s, Len(s) \div 2 + 1, Len(s)))

-----------------------------------------------------------------------------
(* Texts.  A text is a sequence of tokens, a token a sequence of characters. *)
(* A token is a word, one punctuation mark, or a run of whitespace.          *)

Space == <<" ">>
IsSpace(tok) == \A i \in 1..Len(tok) : tok[i] \in {" ", "\n", "\t"}

TextEmpty == <<>>
TextBlank == <<Space>>
\* "The cat sat."
TextA == << <<"T","h","e">>, Space, <<"c","a","t">>, Space, <<"s","a","t">>, <<".">> >>
\* "we like it, we do! we?"
TextB == << <<"w","e">>, Space, <<"l","i","k","e">>, Space, <<"i","t">>, <<",">>, Space,
            <<"w","e">>, Space, <<"d","o">>, <<"!">>, Space, <<"w","e">>, <<"?">> >>

Texts == {TextEmpty, TextBlank, TextA, TextB}

\* Input texts of the feature extractor: every text of at most MaxTokens tokens over
\* a small alphabet (a pronoun, a capitalised function word, a 15-letter word, the
\* four punctuation marks counted, a blank), and single sentences of many words.
We == <<"w","e">>
The == <<"T","h","e">>
LongWord == <<"e","x","t","r","a","o","r","d","i","n","a","r","i","l","y">>
WordTokens == {We, The, LongWord}
Alphabet == WordTokens \cup {Space, <<",">>, <<".">>, <<"!">>, <<"?">>}

\* two words are two tokens only with something between them
WellFormed(text) ==
    \A i \in 1..(Len(text) - 1) : ~(text[i] \in WordTokens /\ text[i + 1] \in WordTokens)

BoundedTexts ==
    UNION { {t \in [1..n -> Alphabet] : WellFormed(t)} : n \in 0..MaxTokens }

\* "we we ... we": n words, one sentence
LongSentence(n) == [i \in 1..(2 * n - 1) |-> IF i % 2 = 1 THEN We ELSE Space]

FeatureTexts == BoundedTexts \cup {LongSentence(n) : n \in {50, 51, 200}}

\* str.strip(): empty when every character is whitespace
StripIsEmpty(text) == \A i \in 1..Len(text) : IsSpace(text[i])

\* len(text)
NumChars(text) == SumSeq([i \in 1..Len(text) |-> Len(text[i])])

\* str.lower() on the alphabet the texts use
LowerChar(c) == IF c = "T" THEN "t" ELSE c
Lower(word) == [i \in 1..Len(word) |-> LowerChar(word[i])]

\* nltk.word_tokenize: words and punctuation marks, in order, whitespace dropped
tokenize_words(text) == SelectSeq(text, LAMBDA tok : ~IsSpace(tok))

\* count_tokens
count_tokens(text) == Len(tokenize_words(text))

IsTerminator(tok) == tok \in {<<".">>, <<"!">>, <<"?">>}

\* nltk.sent_tokenize: a sentence ends with a terminator; a tail without one is a sentence.
\* ends: the positions of the last token of each sentence; the k-th sentence runs
\* from after the (k-1)-th end to the k-th end.
SentenceEnds(toks) ==
    {i \in 1..Len(toks) : IsTerminator(toks[i]) \/ i = Len(toks)}

SplitSentences(toks, ends) ==
    [k \in 1..Cardinality(ends) |->
        LET last_tok == CHOOSE e \in ends : Cardinality({x \in ends : x < e}) = k - 1
            first_tok == IF k = 1 THEN 1
                         ELSE 1 + CHOOSE e \in ends : Cardinality({x \in ends : x < e}) = k - 2
        IN  SubSeq(toks, first_tok, last_tok)]

tokenize_sentences(text) ==
    SplitSentences(tokenize_words(text), SentenceEnds(tokenize_words(text)))

function_words ==
    { <<"t","h","e">>, <<"i","t">>, <<"w","e">>, <<"d","o">>, <<"l","i","k","e">> }

pronouns == { <<"i","t">>, <<"w","e">> }

CountTok(text, tok) == Len(SelectSeq(text, LAMBDA t : t = tok))

get_punctuation_counts(text) ==
    [comma |-> CountTok(text, <<",">>), period |-> CountTok(text, <<".">>),
     exclamation |-> CountTok(text, <<"!">>), question |-> CountTok(text, <<"?">>)]

IsVowel(c) == c \in {"a", "e", "i", "o", "u", "y"}

RECURSIVE VowelRuns(_, _)
VowelRuns(word, previous_was_vowel) ==
    IF word = <<>> THEN 0
    ELSE (IF IsVowel(Head(word)) /\ ~previous_was_vowel THEN 1 ELSE 0)
         + VowelRuns(Tail(word), IsVowel(Head(word)))

count_syllables(w) ==
    LET word == Lower(w)
        runs == VowelRuns(word, FALSE)
        adjusted == IF Len(word) > 0 /\ word[Len(word)] = "e" THEN runs - 1 ELSE runs
    IN  Max(1, adjusted)

\* a bug: the grade returned without the floor at 0
GradeFormula_not_floored(num_sentences, num_words, syllable_count) ==
    IF num_sentences = 0 \/ num_words = 0 THEN [num |-> 0, den |-> 1]
    ELSE [num |-> 39 * num_words * num_words
                  + 1180 * syllable_count * num_sentences
                  - 1559 * num_sentences * num_words,
          den |-> 100 * num_sentences * num_words]

\* The grade as a fraction: [num, den] with grade = max(0, num/den), den > 0;
\* 0.39 * W/S + 11.8 * syl/W - 15.59 over the common denominator 100 * S * W.
GradeFormula(num_sentences, num_words, syllable_count) ==
    IF num_sentences = 0 \/ num_words = 0 THEN [num |-> 0, den |-> 1]
    ELSE [num |-> Max(0, 39 * num_words * num_words
                          + 1180 * syllable_count * num_sentences
                          - 1559 * num_sentences * num_words),
          den |-> 100 * num_sentences * num_words]

SyllableCount(words) == SumSeq([i \in 1..Len(words) |-> count_syllables(words[i])])

GradeOfTokens(sentences, words) ==
    GradeFormula(Len(sentences), Len(words), SyllableCount(words))

calculate_flesch_kincaid_grade(text) ==
    GradeOfTokens(tokenize_sentences(text), tokenize_words(text))

ZeroVector == [i \in 1..NumFeatures |-> 0]

LowerAll(words) == [i \in 1..Len(words) |-> Lower(words[i])]

\* count of the words of a closed vocabulary / len(words)
VocabularyRate(words_lower, vocabulary) ==
    (Len(SelectSeq(words_lower, LAMBDA w : w \in vocabulary)) * FeatScale)
        \div Len(words_lower)

\* a bug: the sentence length clamped like the word length
SentenceLength_clamped(num_sentences, num_words) ==
    IF num_sentences > 0
    THEN Min((num_words * FeatScale) \div (num_sentences * SentLenNorm), FeatScale) ELSE 0

\* len(words) / len(sentences) if sentences else 0, then / 50.0
SentenceLength(num_sentences, num_words) ==
    IF num_sentences > 0
    THEN (num_words * FeatScale) \div (num_sentences * SentLenNorm) ELSE 0

\* len(set(words_lower)) / len(words)
TypeTokenRatio(words_lower) ==
    (Cardinality({words_lower[i] : i \in 1..Len(words_lower)}) * FeatScale)
        \div Len(words_lower)

\* count / total_chars if total_chars > 0 else 0, then * 100
PunctRate(count, total_chars) ==
    IF total_chars > 0 THEN (count * PunctScale * FeatScale) \div total_chars ELSE 0

\* min(fk_grade / 20.0, 1.0)
GradeNormalized(fk) == Min((fk.num * FeatScale) \div (fk.den * GradeNorm), FeatScale)

\* a bug: the word length normalised without the clamp
WordLengthNormalized_unclamped(words) ==
    (SumSeq([i \in 1..Len(words) |-> Len(words[i])]) * FeatScale)
        \div (Len(words) * WordLenNorm)

\* min(avg_word_length / 10.0, 1.0)
WordLengthNormalized(words) ==
    Min((SumSeq([i \in 1..Len(words) |-> Len(words[i])]) * FeatScale)
            \div (Len(words) * WordLenNorm), FeatScale)

\* the array of the ten features, in the order of the source
FeatureVector(words, words_lower, num_sentences, punct_counts, total_chars, fk) ==
    << VocabularyRate(words_lower, function_words),
       SentenceLength(num_sentences, Len(words)),
       TypeTokenRatio(words_lower),
       PunctRate(punct_counts.comma, total_chars),
       PunctRate(punct_counts.period, total_chars),
       PunctRate(punct_counts.exclamation, total_chars),
       PunctRate(punct_counts.question, total_chars),
       VocabularyRate(words_lower, pronouns),
       GradeNormalized(fk),
       WordLengthNormalized(words) >>

FeaturesOfTokens(text, sentences, words) ==
    IF words = <<>> THEN ZeroVector
    ELSE FeatureVector(words, LowerAll(words), Len(sentences),
                       get_punctuation_counts(text), NumChars(text),
                       GradeOfTokens(sentences, words))

extract_stylometric_features(text) ==
    IF StripIsEmpty(text) THEN ZeroVector
    ELSE FeaturesOfTokens(text, tokenize_sentences(text), tokenize_words(text))

\* a bug: no early return for blank text, the tokenizers run on it
TokenizerCalls_no_early_return(text) ==
    IF tokenize_words(text) = <<>>
    THEN <<"tokenize_sentences", "tokenize_words">>
    ELSE <<"tokenize_sentences", "tokenize_words", "tokenize_sentences", "tokenize_words">>

\* the tokenizer calls extract_stylometric_features(text) makes, in order: none for
\* blank text, its own two, and the two of calculate_flesch_kincaid_grade
TokenizerCalls(text) ==
    IF StripIsEmpty(text) THEN <<>>
    ELSE IF tokenize_words(text) = <<>>
    THEN <<"tokenize_sentences", "tokenize_words">>
    ELSE <<"tokenize_sentences", "tokenize_words", "tokenize_sentences", "tokenize_words">>

\* extract_stylometric_features over the texts of the model, evaluated once
FeatureTable == [t \in Texts |-> extract_stylometric_features(t)]
Features(text) ==
    IF text \in Texts THEN FeatureTable[text] ELSE extract_stylometric_features(text)

-----------------------------------------------------------------------------
(* StyleAnalyzer: src/src/style_features.py *)

\* config['personas'] as main sets it up: persona id -> corpus path (the key of corpus)
personas == {"formal_analyst", "journalist"}

\* the configurations an analyzer is constructed with: main's, or one persona only
PersonaConfigs == {personas, {"formal_analyst"}}

\* self.personas with the files behind its paths: configured persona id -> corpus file
Configured(corp, config) == [p \in config |-> corp[p]]

\* persona ids a caller may pass: configured, not configured, or None
NoPersona == "None"
PersonaArgs == personas \cup {"unknown_persona", NoPersona}

\* numpy arrays in memory, JSON lists on disk
np_array(list) == [nd |-> list]
tolist(arr) == arr.nd

\* str.strip() of a chunk: leading and trailing whitespace tokens removed
RECURSIVE LStrip(_)
LStrip(text) ==
    IF text # <<>> /\ IsSpace(Head(text)) THEN LStrip(Tail(text)) ELSE text

RECURSIVE RStrip(_)
RStrip(text) ==
    IF text # <<>> /\ IsSpace(text[Len(text)])
        THEN RStrip(SubSeq(text, 1, Len(text) - 1)) ELSE text

Strip(text) == RStrip(LStrip(text))

\* samples = [s.strip() for s in corpus_text.split('\n\n') if s.strip()]
StripAll(chunks) == [i \in 1..Len(chunks) |-> Strip(chunks[i])]
\* a bug: blank chunks kept as samples
Samples_with_blank_chunks(chunks) == StripAll(chunks)

Samples(chunks) == StripAll(SelectSeq(chunks, LAMBDA s : ~StripIsEmpty(s)))

\* np.mean(feature_vectors, axis=0)
np_mean(feature_vectors) ==
    [d \in 1..NumFeatures |->
        SumSeq([i \in 1..Len(feature_vectors) |-> feature_vectors[i][d]])
            \div Len(feature_vectors)]

\* A persona the corpus loop gives a centroid: the file exists and has a sample
Usable(corp, persona_id) ==
    /\ corp[persona_id].exists
    /\ Samples(corp[persona_id].content) # <<>>

FeatureVectors(samples) == [i \in 1..Len(samples) |-> Features(samples[i])]

PersonaCentroid(corp, persona_id) ==
    np_array(np_mean(FeatureVectors(Samples(corp[persona_id].content))))

\* a bug: the first persona without a usable corpus aborts the loop's result
CentroidsFromCorpora_all_or_nothing(corp) ==
    IF \A q \in DOMAIN corp : Usable(corp, q)
    THEN [p \in DOMAIN corp |-> PersonaCentroid(corp, p)]
    ELSE [p \in {} |-> None]

\* the loop over self.personas.items()
CentroidsFromCorpora(corp) ==
    [p \in {q \in DOMAIN corp : Usable(corp, q)} |-> PersonaCentroid(corp, p)]

\* a bug: only the first configured persona is written to the cache
DumpCentroids_first_persona_only(cents) ==
    [p \in DOMAIN cents \cap {"formal_analyst"} |-> tolist(cents[p])]

\* json.dump({k: v.tolist() ...}) and {k: np.array(v) ...} of json.load
DumpCentroids(cents) == [p \in DOMAIN cents |-> tolist(cents[p])]

\* a bug: of the cached centroids only main's first persona is taken over
LoadCentroids_first_persona_only(cached) ==
    [p \in DOMAIN cached \cap {"formal_analyst"} |-> np_array(cached[p])]

LoadCentroids(cached) == [p \in DOMAIN cached |-> np_array(cached[p])]

\* the cache branch is taken
CacheHit(force_rebuild, cacheFile) == ~force_rebuild /\ cacheFile.exists

\* the cache branch: the file is loaded and nothing else is touched
LoadedBuild(cacheFile) ==
    [centroids |-> LoadCentroids(cacheFile.content), cache |-> cacheFile,
     hit |-> TRUE, read |-> {}, skipped |-> {}]

\* the corpus branch: the centroids of the loop are written to the cache and kept
FreshBuild(corp, cents) ==
    [centroids |-> cents, cache |-> File(DumpCentroids(cents)),
     hit |-> FALSE, read |-> {p \in DOMAIN corp : corp[p].exists},
     skipped |-> DOMAIN corp \ DOMAIN cents]

\* a bug: the cache is found but the corpora are read all the same
RereadBuild(corp, cacheFile, cents) ==
    [centroids |-> cents, cache |-> cacheFile,
     hit |-> TRUE, read |-> {p \in DOMAIN corp : corp[p].exists}, skipped |-> {}]

build_persona_centroids_rereading(force_rebuild, corp, cacheFile) ==
    IF CacheHit(force_rebuild, cacheFile)
    THEN RereadBuild(corp, cacheFile, CentroidsFromCorpora(corp))
    ELSE FreshBuild(corp, CentroidsFromCorpora(corp))

\* a bug: a cache hit refreshes the cache file from the corpora
build_persona_centroids_refreshing(force_rebuild, corp, cacheFile) ==
    IF CacheHit(force_rebuild, cacheFile)
    THEN [LoadedBuild(cacheFile) EXCEPT
            !.cache = File(DumpCentroids(CentroidsFromCorpora(corp)))]
    ELSE FreshBuild(corp, CentroidsFromCorpora(corp))

\* build_persona_centroids: the centroids it sets and returns, the cache file it
\* leaves, the corpora it read and the personas it skipped
build_persona_centroids(force_rebuild, corp, cacheFile) ==
    IF CacheHit(force_rebuild, cacheFile)
    THEN LoadedBuild(cacheFile)
    ELSE FreshBuild(corp, CentroidsFromCorpora(corp))

EmptyCentroids == [p \in {} |-> None]

\* scipy.spatial.distance.jensenshannon is outside the repository: the distance it
\* returns is any grid value of the range the code relies on, [0, 1]
JensenShannonValues == 0..ScoreGrid

\* a bug: the configuration switch is not consulted
EarlyReturn_switch_ignored(use, persona_id) == persona_id = NoPersona

\* the two early returns: scoring switched off, or no persona given
EarlyReturn(use, persona_id) == ~use \/ persona_id = NoPersona

\* "Ensure centroids are built": if not self.centroids
NeedsBuild(cents) == cents = EmptyCentroids

\* the lookup and the score: None without a centroid, else 1 - js_divergence
Lookup(persona_id, cents, js_divergence) ==
    IF persona_id \notin DOMAIN cents THEN None
    ELSE Some(ScoreGrid - js_divergence)

\* nothing built: the analyzer and the cache file stay as they are
WithoutBuild(ret, cents, cacheFile) ==
    [ret |-> ret, built |-> FALSE, read |-> {}, centroids |-> cents,
     cache |-> cacheFile, hit |-> FALSE, skipped |-> {}]

\* the on-demand build b ran first
AfterBuild(persona_id, b, js_divergence) ==
    [ret |-> Lookup(persona_id, b.centroids, js_divergence), built |-> TRUE,
     read |-> b.read, centroids |-> b.centroids, cache |-> b.cache,
     hit |-> b.hit, skipped |-> b.skipped]

\* a bug: the centroids are ensured before the two early returns
calculate_style_similarity_building_first(text, persona_id, use, cents, corp, cacheFile, js_divergence) ==
    IF NeedsBuild(cents)
    THEN [AfterBuild(persona_id, build_persona_centroids(FALSE, corp, cacheFile),
                     js_divergence)
            EXCEPT !.ret = IF EarlyReturn(use, persona_id) THEN None ELSE @]
    ELSE WithoutBuild(IF EarlyReturn(use, persona_id) THEN None
                      ELSE Lookup(persona_id, cents, js_divergence), cents, cacheFile)

\* calculate_style_similarity with js_divergence the value jensenshannon returns:
\* what it returns, whether it ran the on-demand build, and the state it leaves
calculate_style_similarity(text, persona_id, use, cents, corp, cacheFile, js_divergence) ==
    IF EarlyReturn(use, persona_id) THEN WithoutBuild(None, cents, cacheFile)
    ELSE IF NeedsBuild(cents)
    THEN AfterBuild(persona_id, build_persona_centroids(FALSE, corp, cacheFile),
                    js_divergence)
    ELSE WithoutBuild(Lookup(persona_id, cents, js_divergence), cents, cacheFile)

-----------------------------------------------------------------------------
(* ContentMetricsCalculator: src/src/content_metrics.py *)

Unloaded == "None"      \* a lazily loaded model before its first use
Loaded == "loaded"
Failed == "False"       \* the load failed

\* What the outside world does during one call of a sub-scorer.  BERTScore:
\* whether `import torch` works, whether the model loads, and what inference gives
\* (None: it raises).  A load that fails leaves nothing to run inference on.
BertValues == (-1)..ScoreGrid
BertEnv ==
    { e \in [torch_ok : BOOLEAN, load_ok : BOOLEAN,
             infer : {None} \cup {Some(v) : v \in BertValues}] :
        /\ (~e.torch_ok => e.load_ok /\ e.infer = None)
        /\ (~e.load_ok => e.infer = None) }

\* BLEURT: whether the scorer loads, and what score() gives (None: it raises)
BleurtValues == (0 - ScoreGrid - 1)..ScoreGrid
BleurtEnv ==
    { e \in [load_ok : BOOLEAN, infer : {None} \cup {Some(v) : v \in BleurtValues}] :
        ~e.load_ok => e.infer = None }

\* rouge_score is outside the repository: rougeLsum's fmeasure is any grid value of [0, 1]
RougeValues == 0..ScoreGrid

\* rouge_scorer.score(reference, hypothesis) of the rouge_score package: the package
\* lower-cases both texts and keeps their runs of letters and digits as tokens
IsWord(tok) == ~IsSpace(tok) /\ tok \notin {<<",">>, <<".">>, <<"!">>, <<"?">>}
RougeTokens(text) == LowerAll(SelectSeq(text, IsWord))
\* the rougeLsum F-measures it can give, of fmeasures: 1 for the same tokens on both
\* sides, 0 when a side has no token
rouge_scorer_score(reference, hypothesis, fmeasures) ==
    IF RougeTokens(reference) = <<>> \/ RougeTokens(hypothesis) = <<>> THEN {0}
    ELSE IF RougeTokens(reference) = RougeTokens(hypothesis) THEN {ScoreGrid}
    ELSE fmeasures

\* calculate_rouge: {} without a scorer (None: the key is absent)
calculate_rouge(rouge_on, fmeasure) ==
    IF ~rouge_on THEN None ELSE Some(fmeasure)

\* a bug: a failed load leaves the model unloaded, to be loaded again by the next call
load_bertscore_model_retrying(model, env) ==
    IF model # Unloaded THEN [model |-> model, ret |-> model, tried |-> <<>>]
    ELSE IF env.load_ok THEN [model |-> Loaded, ret |-> Loaded, tried |-> <<"loaded">>]
    ELSE [model |-> Unloaded, ret |-> Unloaded, tried |-> <<"failed">>]

\* _load_bertscore_model: the model state it leaves, the (model, tokenizer) it returns
\* and the outcome of the load it tried, if it tried one
load_bertscore_model(model, env) ==
    IF model # Unloaded THEN [model |-> model, ret |-> model, tried |-> <<>>]
    ELSE IF env.load_ok THEN [model |-> Loaded, ret |-> Loaded, tried |-> <<"loaded">>]
    ELSE [model |-> Failed, ret |-> Unloaded, tried |-> <<"failed">>]

\* the tokenizer and the model are run: a value, or None when the run raises
BertInference(l, env) ==
    [ret |-> env.infer, model |-> l.model, tried |-> l.tried, raised |-> env.infer = None]

\* a bug: a raise during inference marks the model as failed
BertAfterLoad_raise_marks_failed(l, env) ==
    IF l.ret = Unloaded \/ l.ret = Failed
    THEN [ret |-> None, model |-> l.model, tried |-> l.tried, raised |-> FALSE]
    ELSE IF env.infer = None
    THEN [ret |-> None, model |-> Failed, tried |-> l.tried, raised |-> TRUE]
    ELSE BertInference(l, env)

\* calculate_bertscore after _load_bertscore_model returned l: None for (None, None),
\* None for (False, False), which raises when called, else the inference
BertAfterLoad(l, env) ==
    IF l.ret = Unloaded \/ l.ret = Failed
    THEN [ret |-> None, model |-> l.model, tried |-> l.tried, raised |-> FALSE]
    ELSE BertInference(l, env)

\* a bug: the model is loaded before the switch is looked at
calculate_bertscore_loading_first(bert_on, model, env) ==
    IF ~env.torch_ok
    THEN [ret |-> None, model |-> model, tried |-> <<>>, raised |-> FALSE]
    ELSE IF ~bert_on
    THEN [ret |-> None, model |-> load_bertscore_model(model, env).model,
          tried |-> load_bertscore_model(model, env).tried, raised |-> FALSE]
    ELSE BertAfterLoad(load_bertscore_model(model, env), env)

\* calculate_bertscore: None when disabled or when `import torch` raises
calculate_bertscore(bert_on, model, env) ==
    IF ~bert_on \/ ~env.torch_ok
    THEN [ret |-> None, model |-> model, tried |-> <<>>, raised |-> FALSE]
    ELSE BertAfterLoad(load_bertscore_model(model, env), env)

\* a bug: the scorer is loaded again after a load that failed (`if not self.bleurt_scorer`)
init_bleurt_retrying(bleurt_on, scorer, env) ==
    IF scorer # Loaded /\ bleurt_on
    THEN (IF env.load_ok THEN [scorer |-> Loaded, tried |-> <<"loaded">>]
                         ELSE [scorer |-> Failed, tried |-> <<"failed">>])
    ELSE [scorer |-> scorer, tried |-> <<>>]

\* _init_bleurt: the scorer it leaves and the outcome of the load it tried, if any
init_bleurt(bleurt_on, scorer, env) ==
    IF scorer = Unloaded /\ bleurt_on
    THEN (IF env.load_ok THEN [scorer |-> Loaded, tried |-> <<"loaded">>]
                         ELSE [scorer |-> Failed, tried |-> <<"failed">>])
    ELSE [scorer |-> scorer, tried |-> <<>>]

\* calculate_bleurt after _init_bleurt left i: None without a scorer, else score()
BleurtAfterInit(i, env) ==
    IF i.scorer # Loaded
    THEN [ret |-> None, scorer |-> i.scorer, tried |-> i.tried, raised |-> FALSE]
    ELSE [ret |-> env.infer, scorer |-> i.scorer, tried |-> i.tried,
          raised |-> env.infer = None]

\* calculate_bleurt
calculate_bleurt(bleurt_on, scorer, env) ==
    IF ~bleurt_on THEN [ret |-> None, scorer |-> scorer, tried |-> <<>>, raised |-> FALSE]
    ELSE BleurtAfterInit(init_bleurt(bleurt_on, scorer, env), env)

\* the weights of the composite, in tenths
WeightRouge == 4
WeightBert == 3
WeightBleurt == 3
\* content_quality is kept as the integer content_quality * CqDen
CqDen == 20 * ScoreGrid

OrZero(opt) == IF opt.isNone THEN 0 ELSE opt.val

\* a bug: the learned-quality score blended without the shift to [0, 1]
bleurt_not_shifted(bleurt) == 2 * bleurt

\* bleurt_normalized = (bleurt + 1) / 2 if bleurt is not None else 0.0, times 2 * ScoreGrid;
\* bleurt is the value after `bleurt_score if bleurt_score is not None else 0.0`
bleurt_normalized(bleurt) == bleurt + ScoreGrid

\* a bug: the weights of the lexical and the embedding score exchanged
content_quality_weights_exchanged(rougeLsum_f, bertscore_f1, bleurt_score) ==
    WeightBert * 2 * OrZero(rougeLsum_f) + WeightRouge * 2 * OrZero(bertscore_f1)
        + WeightBleurt * bleurt_normalized(OrZero(bleurt_score))

\* the composite score, times CqDen
content_quality(rougeLsum_f, bertscore_f1, bleurt_score) ==
    LET rouge == OrZero(rougeLsum_f)
        bertscore == OrZero(bertscore_f1)
        bleurt == OrZero(bleurt_score)
    IN  WeightRouge * 2 * rouge + WeightBert * 2 * bertscore
            + WeightBleurt * bleurt_normalized(bleurt)

\* a bug: the ratio taken the wrong way round
compression_ratio_inverted(hyp_tokens, src_tokens) ==
    IF src_tokens > 0 THEN [num |-> src_tokens, den |-> hyp_tokens]
    ELSE [num |-> 0, den |-> 1]

\* hyp_tokens / src_tokens if src_tokens > 0 else 0.0, as the fraction num / den
compression_ratio(hyp_tokens, src_tokens) ==
    IF src_tokens > 0 THEN [num |-> hyp_tokens, den |-> src_tokens]
    ELSE [num |-> 0, den |-> 1]

\* a bug: the ratio taken against the reference summary's token count
MetricsOf_ratio_to_reference(rouge, bs, bl, src_tokens, hyp_tokens, gold_tokens) ==
    [metrics |-> [rougeLsum_f |-> rouge,
                  bertscore_f1 |-> bs.ret,
                  bleurt |-> bl.ret,
                  src_tokens |-> src_tokens,
                  hyp_tokens |-> hyp_tokens,
                  gold_tokens |-> gold_tokens,
                  compression_ratio |-> compression_ratio(hyp_tokens, gold_tokens),
                  content_quality |-> content_quality(rouge, bs.ret, bl.ret)],
     model |-> bs.model,
     scorer |-> bl.scorer,
     tried |-> [bertscore |-> bs.tried, bleurt |-> bl.tried],
     raised |-> [bertscore |-> bs.raised, bleurt |-> bl.raised]]

\* the metrics dictionary, and the sub-scorers' states, loads tried and raises
MetricsOf(rouge, bs, bl, src_tokens, hyp_tokens, gold_tokens) ==
    [metrics |-> [rougeLsum_f |-> rouge,
                  bertscore_f1 |-> bs.ret,
                  bleurt |-> bl.ret,
                  src_tokens |-> src_tokens,
                  hyp_tokens |-> hyp_tokens,
                  gold_tokens |-> gold_tokens,
                  compression_ratio |-> compression_ratio(hyp_tokens, src_tokens),
                  content_quality |-> content_quality(rouge, bs.ret, bl.ret)],
     model |-> bs.model,
     scorer |-> bl.scorer,
     tried |-> [bertscore |-> bs.tried, bleurt |-> bl.tried],
     raised |-> [bertscore |-> bs.raised, bleurt |-> bl.raised]]

\* calculate_all_metrics: the metrics it returns and the model states it leaves
calculate_all_metrics(source_text, reference, hypothesis, rouge_on, bert_on, bleurt_on, model, scorer, fmeasure, bertEnv, bleurtEnv) ==
    MetricsOf(calculate_rouge(rouge_on, fmeasure),
              calculate_bertscore(bert_on, model, bertEnv),
              calculate_bleurt(bleurt_on, scorer, bleurtEnv),
              count_tokens(source_text), count_tokens(hypothesis), count_tokens(reference))

\* the load outcomes of a process, the newest last
Remember(history, tried) ==
    IF Len(history) < MaxLoadsKept THEN history \o tried ELSE history
AfterLoads(history, tried) ==
    [bertscore |-> Remember(history.bertscore, tried.bertscore),
     bleurt |-> Remember(history.bleurt, tried.bleurt)]
NoLoads == [bertscore |-> <<>>, bleurt |-> <<>>]

-----------------------------------------------------------------------------
(* evaluate_single_item: src/src/eval_runner.py *)

\* the weights of the overall score, in tenths
WeightContent == 7
WeightStyle == 3
\* overall_quality is kept as the integer overall_quality * OqDen
OqDen == 10 * CqDen

\* a bug: a missing style similarity counted as a perfect one
overall_quality_missing_as_one(cq, style_similarity) ==
    LET style_score == IF style_similarity.isNone THEN ScoreGrid ELSE style_similarity.val
    IN  WeightContent * cq + WeightStyle * (CqDen \div ScoreGrid) * style_score

\* overall_quality = (0.7 * content_quality) + (0.3 * style_score), times OqDen
overall_quality(cq, style_similarity) ==
    LET style_score == OrZero(style_similarity)
    IN  WeightContent * cq + WeightStyle * (CqDen \div ScoreGrid) * style_score

\* the result row, and the state the two scorers are left in
ResultRow(record, content, style) ==
    [result |-> [persona |-> record.persona,
                 file |-> record.source_file,
                 sector |-> record.sector,
                 model_used |-> record.model_used,
                 rougeLsum_f |-> content.metrics.rougeLsum_f,
                 bertscore_f1 |-> content.metrics.bertscore_f1,
                 bleurt |-> content.metrics.bleurt,
                 content_quality |-> content.metrics.content_quality,
                 style_similarity |-> style.ret,
                 overall_quality |->
                     overall_quality(content.metrics.content_quality, style.ret)],
     content |-> content,
     style |-> style]

\* evaluate_single_item
evaluate_single_item(record, rouge_on, bert_on, bleurt_on, model, scorer, use, cents, corp, cacheFile, fmeasure, bertEnv, bleurtEnv, js_divergence) ==
    ResultRow(record,
              calculate_all_metrics(record.document_content, record.expected_summary,
                                    record.generated_summary,
                                    rouge_on, bert_on, bleurt_on, model, scorer,
                                    fmeasure, bertEnv, bleurtEnv),
              calculate_style_similarity(record.generated_summary, record.persona,
                                         use, cents, corp, cacheFile, js_divergence))

-----------------------------------------------------------------------------
(* Files the runs start from, and the initial state *)

\* persona corpora: absent, blank only, one sample, two samples around a blank chunk
CorpusFiles ==
    { Missing,
      File(<<TextBlank>>),
      File(<<TextA>>),
      File(<<TextA, TextBlank, <<Space>> \o TextB>>) }

\* one set of persona corpora: a sample for one persona, no file for the other
MainCorpora == [p \in personas |-> IF p = "formal_analyst" THEN File(<<TextA>>) ELSE Missing]

\* main before its first statement
MainStart == [pc |-> "start", records |-> <<>>, i |-> 0, result |-> None, error |-> ""]

\* the processes start with their objects just constructed, the files as they are
\* found (the data directory one of dirs), and a text of texts in the caller's hand
Construction(texts, dirs) ==
    /\ corpus \in [personas -> CorpusFiles]
    /\ cache = Missing
    /\ use_style \in BOOLEAN
    /\ centroids = EmptyCentroids
    /\ use_rouge \in BOOLEAN
    /\ use_bertscore \in BOOLEAN
    /\ use_bleurt \in BOOLEAN
    /\ bertscore_model = Unloaded
    /\ bleurt_scorer = Unloaded
    /\ loads = NoLoads
    /\ results = <<>>
    /\ last = [op |-> "init"]
    /\ everBuilt = FALSE
    /\ skipped = {}
    /\ prevLoad = None
    /\ persona_config = personas
    /\ written = None
    /\ text_in \in texts
    /\ data_dir \in dirs
    /\ main = MainStart

Init == Construction(FeatureTexts, {Missing})

\* the start of the runs that extract no features themselves
InitCalls == Construction({TextEmpty}, {Missing})

-----------------------------------------------------------------------------
(* Actions of the style analyzer and of the file system around it *)

\* style_analyzer.build_persona_centroids(force_rebuild)
BuildPersonaCentroids ==
    \E force_rebuild \in BOOLEAN :
        \E b \in {build_persona_centroids(force_rebuild,
                                          Configured(corpus, persona_config), cache)} :
            /\ centroids' = b.centroids
            /\ cache' = b.cache
            /\ everBuilt' = TRUE
            /\ skipped' = IF b.hit THEN skipped ELSE b.skipped
            /\ written' = IF b.hit THEN written ELSE Some(b.centroids)
            /\ prevLoad' = IF ~force_rebuild /\ cache.exists
                            THEN Some(b.centroids) ELSE None
            /\ last' = [op |-> "build", force_rebuild |-> force_rebuild,
                        cached |-> cache.exists, read |-> b.read, ret |-> b.centroids,
                        prevLoad |-> prevLoad]
            /\ UNCHANGED <<corpus, use_style, persona_config, results, text_in, data_dir, main>>
            /\ UNCHANGED contentVars

\* style_analyzer.calculate_style_similarity(text, persona_id)
CalculateStyleSimilarity ==
    \E text \in {TextEmpty, TextB}, persona_id \in PersonaArgs,
       js_divergence \in JensenShannonValues :
        \E r \in {calculate_style_similarity(text, persona_id, use_style, centroids,
                                             Configured(corpus, persona_config),
                                             cache, js_divergence)} :
            /\ centroids' = r.centroids
            /\ cache' = r.cache
            /\ everBuilt' = (everBuilt \/ r.built)
            /\ skipped' = IF r.built /\ ~r.hit THEN r.skipped ELSE skipped
            /\ written' = IF r.built /\ ~r.hit THEN Some(r.centroids) ELSE written
            /\ prevLoad' = None
            /\ last' = [op |-> "similarity", text |-> text, persona_id |-> persona_id,
                        ret |-> r.ret, built |-> r.built, read |-> r.read,
                        builtBefore |-> everBuilt]
            /\ UNCHANGED <<corpus, use_style, persona_config, results, text_in, data_dir, main>>
            /\ UNCHANGED contentVars

\* a persona corpus is written, replaced or removed between calls
EditCorpus ==
    \E p \in personas, f \in CorpusFiles :
        /\ f # corpus[p]
        /\ corpus' = [corpus EXCEPT ![p] = f]
        /\ last' = [op |-> "edit_corpus"]
        /\ UNCHANGED <<results, text_in, data_dir, main>>
        /\ UNCHANGED <<cache, use_style, centroids, everBuilt, skipped, prevLoad,
                       persona_config, written>>
        /\ UNCHANGED contentVars

\* outputs/persona_centroids.json is deleted between calls
DeleteCache ==
    /\ cache.exists
    /\ cache' = Missing
    /\ prevLoad' = None
    /\ written' = None
    /\ last' = [op |-> "delete_cache"]
    /\ UNCHANGED <<results, text_in, data_dir, main>>
    /\ UNCHANGED <<corpus, use_style, centroids, everBuilt, skipped, persona_config>>
    /\ UNCHANGED contentVars

\* StyleAnalyzer(config) in a new process: the files stay, the object starts over
NewStyleAnalyzer ==
    /\ use_style' \in BOOLEAN
    /\ persona_config' \in PersonaConfigs
    /\ centroids' = EmptyCentroids
    /\ everBuilt' = FALSE
    /\ prevLoad' = None
    /\ last' = [op |-> "new_style_analyzer"]
    /\ UNCHANGED <<results, text_in, data_dir, main>>
    /\ UNCHANGED <<corpus, cache, skipped, written>>
    /\ UNCHANGED contentVars

NextStyle ==
    \/ BuildPersonaCentroids
    \/ CalculateStyleSimilarity
    \/ EditCorpus
    \/ DeleteCache
    \/ NewStyleAnalyzer

\* the style analyzer and its files, the content calculator left as main configures it
InitStyle == InitCalls /\ use_rouge /\ use_bertscore /\ ~use_bleurt

SpecStyle == InitStyle /\ [][NextStyle]_vars

-----------------------------------------------------------------------------
(* The feature extractor on its own *)

\* style_analyzer.extract_stylometric_features(text)
ExtractStylometricFeatures ==
    \E r \in {extract_stylometric_features(text_in)} :
        /\ last' = [op |-> "features", text |-> text_in, ret |-> r,
                    calls |-> TokenizerCalls(text_in)]
        /\ UNCHANGED <<results, text_in, data_dir, main>>
        /\ UNCHANGED styleVars
        /\ UNCHANGED contentVars

NextFeatures == ExtractStylometricFeatures

\* the configuration main sets up without --use-bleurt
MainConfiguration ==
    corpus = MainCorpora /\ use_style /\ use_rouge /\ use_bertscore /\ ~use_bleurt

InitFeatures == Init /\ MainConfiguration

SpecFeatures == InitFeatures /\ [][NextFeatures]_vars

-----------------------------------------------------------------------------
(* Actions of the content metrics calculator *)

\* content_calc.calculate_all_metrics(source_text, reference, hypothesis) for a
\* (source, reference, hypothesis) triple of textTriples, the sub-scorers' outcomes
\* drawn from the three other sets
ScoreTexts(textTriples, fmeasures, bertEnvs, bleurtEnvs) ==
    \E texts \in textTriples, bertEnv \in bertEnvs, bleurtEnv \in bleurtEnvs :
      \E fmeasure \in rouge_scorer_score(texts[2], texts[3], fmeasures) :
        \E r \in {calculate_all_metrics(texts[1], texts[2], texts[3],
                                        use_rouge, use_bertscore, use_bleurt,
                                        bertscore_model, bleurt_scorer,
                                        fmeasure, bertEnv, bleurtEnv)} :
            /\ bertscore_model' = r.model
            /\ bleurt_scorer' = r.scorer
            /\ loads' = AfterLoads(loads, r.tried)
            /\ last' = [op |-> "metrics", source_text |-> texts[1],
                        reference |-> texts[2],
                        hypothesis |-> texts[3], metrics |-> r.metrics,
                        tried |-> r.tried, raised |-> r.raised,
                        prev_raised |-> IF last.op = "metrics" THEN last.raised
                                        ELSE [bertscore |-> FALSE, bleurt |-> FALSE]]
            /\ UNCHANGED <<use_rouge, use_bertscore, use_bleurt, results, text_in, data_dir, main>>
            /\ UNCHANGED styleVars

\* one document and its summary, every outcome of the three sub-scorers
CalculateAllMetrics == ScoreTexts({<<TextA, TextA, TextB>>}, RougeValues, BertEnv, BleurtEnv)

\* ContentMetricsCalculator(config) in a new process
NewContentMetricsCalculator ==
    /\ use_rouge' \in BOOLEAN
    /\ use_bertscore' \in BOOLEAN
    /\ use_bleurt' \in BOOLEAN
    /\ bertscore_model' = Unloaded
    /\ bleurt_scorer' = Unloaded
    /\ loads' = NoLoads
    /\ last' = [op |-> "new_content_calculator"]
    /\ UNCHANGED <<results, text_in, data_dir, main>>
    /\ UNCHANGED styleVars

NextContent ==
    \/ CalculateAllMetrics
    \/ NewContentMetricsCalculator

\* the content calculator alone: one set of persona corpora, style scoring on
InitContent == InitCalls /\ corpus = MainCorpora /\ use_style

SpecContent == InitContent /\ [][NextContent]_vars

-----------------------------------------------------------------------------
(* Token accounting *)

\* source documents and summaries: no text, blanks, one token of each kind, sentences
TokenTexts == {TextEmpty, TextBlank, TextA, TextB} \cup {t \in BoundedTexts : Len(t) = 1}

\* a source, a reference summary and a generated summary: the reference is one
\* sentence or the generated summary itself
TokenTriples ==
    {<<s, r, h>> : s \in TokenTexts, r \in {TextA}, h \in TokenTexts}
        \cup {<<s, h, h>> : s \in TokenTexts, h \in TokenTexts}

\* every triple of these scored, the learned sub-scorers each with one outcome
CalculateAllMetricsOfTexts ==
    ScoreTexts(TokenTriples, {0, ScoreGrid},
               {[torch_ok |-> TRUE, load_ok |-> TRUE, infer |-> Some(ScoreGrid)]},
               {[load_ok |-> TRUE, infer |-> Some(ScoreGrid)]})

NextTokens == CalculateAllMetricsOfTexts

\* the calculator as main configures it without --use-bleurt
InitTokens == InitContent /\ use_rouge /\ use_bertscore /\ ~use_bleurt

SpecTokens == InitTokens /\ [][NextTokens]_vars

-----------------------------------------------------------------------------
(* Scoring one record *)

\* the sub-scorers' outcomes while a record is scored: the ends of each range
ItemRougeValues == {0, ScoreGrid}
ItemBertEnv == {e \in BertEnv : e.infer \in {None, Some(ScoreGrid)}}
ItemBleurtEnv == {e \in BleurtEnv : e.infer \in {None, Some(0 - ScoreGrid), Some(ScoreGrid)}}
ItemJensenShannonValues == {0, ScoreGrid}

\* evaluate_single_item(record, content_calculator, style_analyzer)
EvaluateSingleItem ==
    \E persona \in PersonaArgs, fmeasure \in ItemRougeValues, bertEnv \in ItemBertEnv,
       bleurtEnv \in ItemBleurtEnv, js_divergence \in ItemJensenShannonValues :
        \E r \in {evaluate_single_item(
                      [persona |-> persona, source_file |-> 1, sector |-> "",
                       model_used |-> "", document_content |-> TextA,
                       expected_summary |-> TextA, generated_summary |-> TextB],
                      use_rouge, use_bertscore, use_bleurt, bertscore_model,
                      bleurt_scorer, use_style, centroids,
                      Configured(corpus, persona_config), cache,
                      fmeasure, bertEnv, bleurtEnv, js_divergence)} :
            /\ bertscore_model' = r.content.model
            /\ bleurt_scorer' = r.content.scorer
            /\ loads' = AfterLoads(loads, r.content.tried)
            /\ centroids' = r.style.centroids
            /\ cache' = r.style.cache
            /\ everBuilt' = (everBuilt \/ r.style.built)
            /\ skipped' = IF r.style.built /\ ~r.style.hit THEN r.style.skipped ELSE skipped
            /\ written' = IF r.style.built /\ ~r.style.hit
                          THEN Some(r.style.centroids) ELSE written
            /\ prevLoad' = None
            /\ last' = [op |-> "evaluate", result |-> r.result,
                        style_returned |-> r.style.ret]
            /\ UNCHANGED <<corpus, use_style, persona_config, use_rouge, use_bertscore, use_bleurt, results, text_in, data_dir, main>>

NextEval ==
    \/ EvaluateSingleItem
    \/ BuildPersonaCentroids

\* scoring records with the calculators as main configures them (BLEURT and style
\* scoring on or off), over one set of persona corpora
InitEval == InitCalls /\ corpus = MainCorpora /\ use_rouge /\ use_bertscore

SpecEval == InitEval /\ [][NextEval]_vars

-----------------------------------------------------------------------------
(* calculate_aggregates: src/src/eval_runner.py *)

\* A result row as far as the aggregation reads it: the three grouping columns, a
\* metric column that may be missing, style_similarity, in whole units, and one that
\* never is, overall_quality, in tenths, of a content quality of 1.0
MetricValues == {None} \cup {Some(v) : v \in 1..3}
RowQuality(style_similarity) == WeightContent + WeightStyle * OrZero(style_similarity)
ResultRows ==
    { [persona |-> "formal_analyst", sector |-> "tech", model_used |-> "",
       style_similarity |-> m, overall_quality |-> RowQuality(m)] : m \in MetricValues }
    \cup
    { [persona |-> "journalist", sector |-> "", model_used |-> "gpt",
       style_similarity |-> m, overall_quality |-> RowQuality(m)] : m \in MetricValues }

RECURSIVE Factorial(_)
Factorial(n) == IF n <= 1 THEN 1 ELSE n * Factorial(n - 1)

\* means and medians are kept as the integer mean * MeanDen, exact for every count
\* up to MaxResults; a standard deviation is kept as its square, times MeanDen
MeanDen == Factorial(MaxResults)

\* float('nan'): the statistic of no value
NaN == None

\* a bug: missing values counted as 0 (fillna(0))
NonMissing_zero_filled(values) ==
    [i \in 1..Len(values) |-> IF values[i].isNone THEN 0 ELSE values[i].val]

\* pandas skips NaN: the values a statistic is computed over
NonMissing(values) ==
    LET present == SelectSeq(values, LAMBDA v : ~v.isNone)
    IN  [i \in 1..Len(present) |-> present[i].val]

\* the k-th smallest of a non-empty sequence of numbers
KthSmallest(xs, k) ==
    CHOOSE v \in {xs[i] : i \in 1..Len(xs)} :
        /\ Cardinality({i \in 1..Len(xs) : xs[i] < v}) < k
        /\ Cardinality({i \in 1..Len(xs) : xs[i] <= v}) >= k

Squares(xs) == [i \in 1..Len(xs) |-> xs[i] * xs[i]]

\* one pandas reduction over the non-missing values xs of a column
Statistic(name, xs) ==
    IF name = "count" THEN Some(Len(xs))
    ELSE IF Len(xs) = 0 THEN NaN
    ELSE IF name = "mean" THEN Some((SumSeq(xs) * MeanDen) \div Len(xs))
    ELSE IF name = "median"
         THEN Some(((KthSmallest(xs, (Len(xs) + 1) \div 2)
                     + KthSmallest(xs, (Len(xs) + 2) \div 2)) * MeanDen) \div 2)
    ELSE IF name = "min" THEN Some(KthSmallest(xs, 1))
    ELSE IF name = "max" THEN Some(KthSmallest(xs, Len(xs)))
    ELSE IF Len(xs) = 1 THEN NaN      \* "std", ddof = 1
    ELSE Some(((Len(xs) * SumSeq(Squares(xs)) - SumSeq(xs) * SumSeq(xs)) * MeanDen)
                  \div (Len(xs) * (Len(xs) - 1)))

\* the column of a data frame
Column(rows, c) ==
    [i \in 1..Len(rows) |-> IF c = "overall_quality" THEN Some(rows[i].overall_quality)
                            ELSE rows[i].style_similarity]

\* df.select_dtypes(include=['float64', 'int64']).columns: a column of None only
\* has dtype object and is left out
numeric_cols(rows) ==
    IF \E i \in 1..Len(rows) : ~rows[i].style_similarity.isNone
    THEN {"style_similarity", "overall_quality"} ELSE {"overall_quality"}

\* frame[numeric_cols].agg(stats).to_dict()
Agg(rows, cols, stats) ==
    [c \in cols |-> [st \in stats |-> Statistic(st, NonMissing(Column(rows, c)))]]

\* df[df[key] == value]
GroupRows(rows, key, value) == SelectSeq(rows, LAMBDA r : r[key] = value)

\* df[key].unique()
Unique(rows, key) == {rows[i][key] : i \in 1..Len(rows)}

OverallStats == {"mean", "median", "std", "min", "max"}
PersonaStats == {"mean", "median", "std", "count"}
SectorStats == {"mean", "count"}
ModelStats == {"mean", "count"}

\* a bug: the rows without a sector or a source model grouped like the others
Aggregates_with_empty_keys(rows, cols) ==
    [raised |-> FALSE,
     overall |-> Agg(rows, cols, OverallStats),
     by_persona |-> [p \in Unique(rows, "persona") |->
                        Agg(GroupRows(rows, "persona", p), cols, PersonaStats)],
     by_sector |-> [x \in Unique(rows, "sector") |->
                        Agg(GroupRows(rows, "sector", x), cols, SectorStats)],
     by_model |-> [x \in Unique(rows, "model_used") |->
                        Agg(GroupRows(rows, "model_used", x), cols, ModelStats)],
     total_items |-> Len(rows)]

\* the aggregates of a non-empty list of rows
Aggregates(rows, cols) ==
    [raised |-> FALSE,
     overall |-> Agg(rows, cols, OverallStats),
     by_persona |-> [p \in Unique(rows, "persona") |->
                        Agg(GroupRows(rows, "persona", p), cols, PersonaStats)],
     by_sector |-> [x \in Unique(rows, "sector") \ {""} |->
                        Agg(GroupRows(rows, "sector", x), cols, SectorStats)],
     by_model |-> [x \in Unique(rows, "model_used") \ {""} |->
                        Agg(GroupRows(rows, "model_used", x), cols, ModelStats)],
     total_items |-> Len(rows)]

\* a bug: an empty result list aggregated into empty groups
calculate_aggregates_of_nothing(rows) ==
    IF rows = <<>>
    THEN [raised |-> FALSE, overall |-> <<>>, by_persona |-> <<>>, by_sector |-> <<>>,
          by_model |-> <<>>, total_items |-> 0]
    ELSE Aggregates(rows, numeric_cols(rows))

\* calculate_aggregates; an empty frame has no 'persona' column and df['persona'] raises
calculate_aggregates(rows) ==
    IF rows = <<>> THEN [raised |-> TRUE]
    ELSE Aggregates(rows, numeric_cols(rows))

\* results.append(result) in main's loop
AppendResult ==
    /\ Len(results) < MaxResults
    /\ \E row \in ResultRows : results' = Append(results, row)
    /\ last' = [op |-> "append"]
    /\ UNCHANGED <<text_in, data_dir, main>>
    /\ UNCHANGED styleVars
    /\ UNCHANGED contentVars

\* calculate_aggregates(results)
CalculateAggregates ==
    /\ \E r \in {calculate_aggregates(results)} :
            last' = [op |-> "aggregates", ret |-> r]
    /\ UNCHANGED <<results, text_in, data_dir, main>>
    /\ UNCHANGED styleVars
    /\ UNCHANGED contentVars

NextAggregates ==
    \/ AppendResult
    \/ CalculateAggregates

InitAggregates == InitCalls /\ MainConfiguration

SpecAggregates == InitAggregates /\ [][NextAggregates]_vars

-----------------------------------------------------------------------------
(* Loading the records: src/src/io_utils.py *)

\* the data directory holds at most MaxFiles files, named 1.json, 2.json, ...
MaxFiles == 3
FileNames == 1..MaxFiles

\* A JSON object as extract_fields and infer_persona read it; prompt_type and author
\* are kept as the sets of keywords their lower-cased strings contain.
RawRecords ==
    { [prompt_type |-> {"research"}, author |-> {}, sector |-> "tech", model_used |-> ""],
      [prompt_type |-> {}, author |-> {"economist"}, sector |-> "", model_used |-> "gpt"],
      [prompt_type |-> {}, author |-> {}, sector |-> "", model_used |-> "gpt"] }

\* what a *.json file can hold: a JSON object, text json.load rejects with
\* JSONDecodeError, or bytes that are not UTF-8 (f.read() raises UnicodeDecodeError)
JsonObject(raw) == [kind |-> "object", data |-> raw]
Malformed == [kind |-> "malformed"]
Undecodable == [kind |-> "undecodable"]
JsonFiles == {JsonObject(raw) : raw \in RawRecords} \cup {Malformed, Undecodable}

Directory(files) == [exists |-> TRUE, files |-> files]

\* the data directories of at most MaxFiles files, and no directory
DataDirs ==
    {Missing} \cup {Directory(f) : f \in UNION {[names -> JsonFiles] : names \in SUBSET FileNames}}

\* sorted(data_path.glob("*.json"))
RECURSIVE Sorted(_)
Sorted(names) ==
    IF names = {} THEN <<>>
    ELSE LET first == CHOOSE n \in names : \A m \in names : n <= m
         IN  <<first>> \o Sorted(names \ {first})

\* the loop of load_json_files over json_files: the objects yielded, each with its
\* '_source_file', the files warned about, and the exception that ends the loop
RECURSIVE ReadFiles(_, _)
ReadFiles(files, json_files) ==
    IF json_files = <<>> THEN [error |-> "", yielded |-> <<>>, warnings |-> <<>>]
    ELSE LET json_file == Head(json_files)
             f == files[json_file]
             rest == ReadFiles(files, Tail(json_files))
         IN  IF f.kind = "undecodable"
             THEN [error |-> "UnicodeDecodeError", yielded |-> <<>>, warnings |-> <<>>]
             ELSE IF f.kind = "malformed"
             THEN [rest EXCEPT !.warnings = <<json_file>> \o @]
             ELSE [rest EXCEPT !.yielded =
                       <<[data |-> f.data, source_file |-> json_file]>> \o @]

\* load_json_files, iterated to its end
load_json_files(dir) ==
    IF ~dir.exists \/ DOMAIN dir.files = {}
    THEN [error |-> "FileNotFoundError", yielded |-> <<>>, warnings |-> <<>>]
    ELSE ReadFiles(dir.files, Sorted(DOMAIN dir.files))

\* infer_persona
infer_persona(record) ==
    IF record.prompt_type \cap {"research", "analyst", "note"} # {} THEN "formal_analyst"
    ELSE IF record.author \cap {"analyst", "economist", "strategist", "phd", "cfa"} # {}
    THEN "formal_analyst"
    ELSE IF record.prompt_type \cap {"morning", "summary", "brief", "update"} # {}
    THEN "journalist"
    ELSE IF record.prompt_type \cap {"quick", "highlight", "takeaway"} # {}
    THEN "enthusiast"
    ELSE "journalist"

\* extract_fields, and the persona load_all_records adds; every document is
\* "The cat sat." with that as expected and "we like it, we do! we?" as generated summary
extract_fields(raw_record) ==
    [document_content |-> TextA, expected_summary |-> TextA, generated_summary |-> TextB,
     sector |-> raw_record.data.sector, model_used |-> raw_record.data.model_used,
     source_file |-> raw_record.source_file,
     persona |-> infer_persona(raw_record.data)]

\* load_all_records: the records, or the exception load_json_files raised
load_all_records(dir) ==
    LET loaded == load_json_files(dir)
    IN  [error |-> loaded.error,
         warnings |-> loaded.warnings,
         records |-> IF loaded.error # "" THEN <<>>
                     ELSE [k \in 1..Len(loaded.yielded) |-> extract_fields(loaded.yielded[k])]]

-----------------------------------------------------------------------------
(* The batch run: main of src/src/eval_runner.py, statement by statement *)

\* the sub-scorers' outcomes during a run: the models load, the scores vary
MainRougeValues == {0, ScoreGrid}
MainBertEnv == {[torch_ok |-> TRUE, load_ok |-> TRUE, infer |-> Some(ScoreGrid)]}
MainBleurtEnv == {[load_ok |-> TRUE, infer |-> Some(ScoreGrid)]}
MainJensenShannonValues == {ScoreGrid}

\* records = load_all_records(args.data_dir); an exception ends the run
MainLoad ==
    /\ main.pc = "start"
    /\ \E r \in {load_all_records(data_dir)} :
        /\ main' = IF r.error # "" THEN [main EXCEPT !.pc = "aborted", !.error = r.error]
                   ELSE [main EXCEPT !.pc = "loaded", !.records = r.records]
        /\ last' = [op |-> "main_load", error |-> r.error, warnings |-> r.warnings]
    /\ UNCHANGED <<results, text_in, data_dir>>
    /\ UNCHANGED styleVars
    /\ UNCHANGED contentVars

\* the calculators are constructed, the centroids built, results = []
MainSetUp ==
    /\ main.pc = "loaded"
    /\ use_rouge' = TRUE
    /\ use_bertscore' = TRUE
    /\ use_bleurt' \in BOOLEAN
    /\ bertscore_model' = Unloaded
    /\ bleurt_scorer' = Unloaded
    /\ loads' = NoLoads
    /\ use_style' = TRUE
    /\ persona_config' = personas
    /\ \E b \in {build_persona_centroids(FALSE, Configured(corpus, personas), cache)} :
        /\ centroids' = b.centroids
        /\ cache' = b.cache
        /\ skipped' = IF b.hit THEN skipped ELSE b.skipped
        /\ written' = IF b.hit THEN written ELSE Some(b.centroids)
        /\ prevLoad' = IF cache.exists THEN Some(b.centroids) ELSE None
        /\ last' = [op |-> "main_set_up", read |-> b.read]
    /\ everBuilt' = TRUE
    /\ results' = <<>>
    /\ main' = [main EXCEPT !.pc = "loop", !.i = 0]
    /\ UNCHANGED <<corpus, text_in, data_dir>>

\* for i, record in enumerate(records, 1): result = evaluate_single_item(record, ...)
MainScore ==
    /\ main.pc = "loop"
    /\ main.i < Len(main.records)
    /\ \E fmeasure \in MainRougeValues, bertEnv \in MainBertEnv,
          bleurtEnv \in MainBleurtEnv, js_divergence \in MainJensenShannonValues :
        \E r \in {evaluate_single_item(
                      main.records[main.i + 1],
                      use_rouge, use_bertscore, use_bleurt, bertscore_model,
                      bleurt_scorer, use_style, centroids,
                      Configured(corpus, persona_config), cache,
                      fmeasure, bertEnv, bleurtEnv, js_divergence)} :
            /\ bertscore_model' = r.content.model
            /\ bleurt_scorer' = r.content.scorer
            /\ loads' = AfterLoads(loads, r.content.tried)
            /\ centroids' = r.style.centroids
            /\ cache' = r.style.cache
            /\ everBuilt' = (everBuilt \/ r.style.built)
            /\ skipped' = IF r.style.built /\ ~r.style.hit THEN r.style.skipped ELSE skipped
            /\ written' = IF r.style.built /\ ~r.style.hit
                          THEN Some(r.style.centroids) ELSE written
            /\ prevLoad' = None
            /\ main' = [main EXCEPT !.pc = "append", !.i = @ + 1, !.result = Some(r.result)]
            /\ last' = [op |-> "main_score", i |-> main.i + 1, appended |-> Len(results)]
    /\ UNCHANGED <<corpus, use_style, persona_config, use_rouge, use_bertscore, use_bleurt, results, text_in, data_dir>>

\* a bug: the newest result put first (results.insert(0, result))
MainAppend_at_front ==
    /\ main.pc = "append"
    /\ results' = <<main.result.val>> \o results
    /\ main' = [main EXCEPT !.pc = "loop", !.result = None]
    /\ last' = [op |-> "main_append", i |-> main.i]
    /\ UNCHANGED <<text_in, data_dir>>
    /\ UNCHANGED styleVars
    /\ UNCHANGED contentVars

\* results.append(result)
MainAppend ==
    /\ main.pc = "append"
    /\ results' = Append(results, main.result.val)
    /\ main' = [main EXCEPT !.pc = "loop", !.result = None]
    /\ last' = [op |-> "main_append", i |-> main.i]
    /\ UNCHANGED <<text_in, data_dir>>
    /\ UNCHANGED styleVars
    /\ UNCHANGED contentVars

\* after the loop: aggregates = calculate_aggregates(results); an exception ends the run
MainAggregate ==
    /\ main.pc = "loop"
    /\ main.i = Len(main.records)
    /\ \E a \in {calculate_aggregates(results)} :
        /\ main' = IF a.raised THEN [main EXCEPT !.pc = "aborted", !.error = "KeyError"]
                   ELSE [main EXCEPT !.pc = "done"]
        /\ last' = [op |-> "main_aggregate", results |-> results, ret |-> a]
    /\ UNCHANGED <<results, text_in, data_dir>>
    /\ UNCHANGED styleVars
    /\ UNCHANGED contentVars

NextMain ==
    \/ MainLoad
    \/ MainSetUp
    \/ MainScore
    \/ MainAppend
    \/ MainAggregate

\* a run over any data directory, the persona corpora as in MainCorpora
InitMain == Construction({TextEmpty}, DataDirs) /\ MainConfiguration

SpecMain == InitMain /\ [][NextMain]_vars

-----------------------------------------------------------------------------
(* The whole system *)

Next ==
    \/ BuildPersonaCentroids
    \/ CalculateStyleSimilarity
    \/ CalculateAllMetrics
    \/ EvaluateSingleItem
    \/ EditCorpus
    \/ DeleteCache
    \/ NewStyleAnalyzer
    \/ NewContentMetricsCalculator
    \/ ExtractStylometricFeatures
    \/ CalculateAllMetricsOfTexts
    \/ AppendResult
    \/ CalculateAggregates
    \/ MainLoad
    \/ MainSetUp
    \/ MainScore
    \/ MainAppend
    \/ MainAggregate

Spec == Init /\ [][Next]_vars

-----------------------------------------------------------------------------
(* Properties of the content composite (SpecContent) and of the overall score (SpecEval) *)

Present(opt) == ~opt.isNone

\* C1: in calculate_all_metrics, when the embedding-similarity score and the
\* learned-quality score are both unavailable, content_quality is exactly
\* 0.4 x rougeLsum_f: content_quality / CqDen = 4/10 * rougeLsum_f / ScoreGrid.
\* The code gives 0.4 x rougeLsum_f + 0.15.
C1_BothUnavailableIsFourTenthsLexical ==
    (/\ last.op = "metrics"
     /\ Present(last.metrics.rougeLsum_f)
     /\ last.metrics.bertscore_f1 = None
     /\ last.metrics.bleurt = None)
    => 10 * ScoreGrid * last.metrics.content_quality
           = 4 * CqDen * last.metrics.rougeLsum_f.val

\* C2: with all three sub-scores available,
\* content_quality = 0.4 x rougeLsum_f + 0.3 x bertscore_f1 + 0.3 x ((bleurt + 1) / 2);
\* over the common denominator 20 * ScoreGrid that is 8 r + 6 b + 3 (l + ScoreGrid).
C2_CompositeOfThree ==
    (/\ last.op = "metrics"
     /\ Present(last.metrics.rougeLsum_f)
     /\ Present(last.metrics.bertscore_f1)
     /\ Present(last.metrics.bleurt))
    => 20 * ScoreGrid * last.metrics.content_quality
           = CqDen * ( 8 * last.metrics.rougeLsum_f.val
                     + 6 * last.metrics.bertscore_f1.val
                     + 3 * (last.metrics.bleurt.val + ScoreGrid) )

\* all three sub-scores available with distinct, non-zero values
C2_Witness ==
    /\ last.op = "metrics"
    /\ last.metrics.rougeLsum_f = Some(ScoreGrid)
    /\ last.metrics.bertscore_f1 = Some(1)
    /\ last.metrics.bleurt = Some(-1)

InUnit(opt) == Present(opt) /\ 0 <= opt.val /\ opt.val <= ScoreGrid
InSigned(opt) == Present(opt) /\ 0 - ScoreGrid <= opt.val /\ opt.val <= ScoreGrid

\* C3: content_quality lies in [0, 1] whenever rougeLsum_f and bertscore_f1 lie in
\* [0, 1] and bleurt lies in [-1, 1].
C3_CompositeInUnitInterval ==
    (/\ last.op = "metrics"
     /\ InUnit(last.metrics.rougeLsum_f)
     /\ InUnit(last.metrics.bertscore_f1)
     /\ InSigned(last.metrics.bleurt))
    => /\ 0 <= last.metrics.content_quality
       /\ last.metrics.content_quality <= CqDen

\* the lowest sub-scores of the ranges: the composite is 0
C3_Witness ==
    /\ last.op = "metrics"
    /\ last.metrics.rougeLsum_f = Some(0)
    /\ last.metrics.bertscore_f1 = Some(0)
    /\ last.metrics.bleurt = Some(0 - ScoreGrid)
    /\ last.metrics.content_quality = 0

\* C4: evaluate_single_item sets overall_quality = 0.7 x content_quality
\* + 0.3 x style_similarity; when calculate_style_similarity returned None,
\* overall_quality is exactly 0.7 x content_quality and the row's style_similarity
\* is None, not 0.
C4_OverallQuality ==
    last.op = "evaluate" =>
        LET row == last.result
        IN  /\ Present(row.style_similarity)
                => 10 * CqDen * ScoreGrid * row.overall_quality
                       = OqDen * ( 7 * ScoreGrid * row.content_quality
                                 + 3 * CqDen * row.style_similarity.val )
            /\ last.style_returned = None
                => /\ 10 * CqDen * row.overall_quality = OqDen * 7 * row.content_quality
                   /\ row.style_similarity = None

\* a record scored with no style similarity and a content quality above 0
C4_Witness ==
    /\ last.op = "evaluate"
    /\ last.style_returned = None
    /\ last.result.content_quality > 0
    /\ last.result.persona = "journalist"

-----------------------------------------------------------------------------
(* Properties of the style analyzer and the centroid cache (SpecStyle) *)

\* C5: calculate_style_similarity returns None, for any text, when style scoring is
\* disabled, when persona_id is None, and when no centroid exists for persona_id
\* after the on-demand build.
C5_UnavailableCases ==
    last.op = "similarity" =>
        /\ ~use_style => last.ret = None
        /\ last.persona_id = NoPersona => last.ret = None
        /\ last.persona_id \notin DOMAIN centroids => last.ret = None

\* the empty text scored for a persona that is not configured, after an on-demand build
C5_Witness ==
    /\ last.op = "similarity"
    /\ last.text = TextEmpty
    /\ last.persona_id = "unknown_persona"
    /\ last.built
    /\ use_style
    /\ last.ret = None

\* C7: of two consecutive build_persona_centroids(force_rebuild=False) calls with a
\* cache file present, neither reads a persona corpus and the second returns the
\* map the first returned, whatever happened to the corpora in between.
C7_CachedBuildIdempotent ==
    (/\ last.op = "build"
     /\ ~last.force_rebuild
     /\ last.cached)
    => /\ last.read = {}
       /\ Present(last.prevLoad) => last.ret = last.prevLoad.val

\* the second of two cached builds, the corpora by now giving other centroids
C7_Witness ==
    /\ last.op = "build"
    /\ ~last.force_rebuild
    /\ last.cached
    /\ Present(last.prevLoad)
    /\ last.ret # EmptyCentroids
    /\ \E p \in personas : ~corpus[p].exists /\ p \in DOMAIN last.ret
    /\ \E p \in personas : corpus[p].exists /\ p \notin DOMAIN last.ret

\* a corpus file with at least one chunk that is not blank
HasSample(file) ==
    file.exists /\ \E i \in 1..Len(file.content) : ~StripIsEmpty(file.content[i])

\* C8: a build that reads corpora (forced, or finding no cache file) completes and
\* gives a centroid to exactly the personas whose corpus exists and has a non-empty
\* sample, skipping the others; and every later calculate_style_similarity for a
\* persona that the most recent such build skipped returns None.
C8_SkippedPersonas ==
    /\ (last.op = "build" /\ (last.force_rebuild \/ ~last.cached))
        => /\ DOMAIN last.ret = {p \in persona_config : HasSample(corpus[p])}
           /\ skipped = {p \in persona_config : ~HasSample(corpus[p])}
    /\ (last.op = "similarity" /\ last.persona_id \in skipped)
        => last.ret = None

\* similarity asked for a skipped persona while the other persona has its centroid,
\* the call itself building nothing
C8_Witness ==
    /\ last.op = "similarity"
    /\ last.persona_id \in skipped
    /\ ~last.built
    /\ centroids # EmptyCentroids
    /\ last.ret = None
    /\ HasSample(corpus[last.persona_id])

\* C9: once a build has completed in the process, no calculate_style_similarity
\* call runs another build, also when that build produced no centroid.
\* The code builds again on every call while the centroids are empty.
C9_BuiltOncePerProcess ==
    (last.op = "similarity" /\ last.builtBefore) => ~last.built

CacheKeepingStep ==
    \/ last'.op = "build" /\ ~last'.force_rebuild
    \/ last'.op = "similarity"

CacheChangingStep ==
    \/ last'.op = "delete_cache"
    \/ last'.op = "build" /\ (last'.force_rebuild \/ ~cache.exists)
    \/ last'.op = "similarity" /\ last'.built /\ ~cache.exists

\* C10: the cache file changes only through a forced rebuild, a build that finds no
\* cache file, or its deletion; a build without force_rebuild and every
\* calculate_style_similarity call made while the cache file exists leave it as it is.
C10_CacheFrame ==
    [][ /\ (cache.exists /\ CacheKeepingStep) => cache' = cache
        /\ cache' # cache => CacheChangingStep ]_vars

\* a cached build has left a cache file that the corpora no longer agree with
C10_Witness ==
    /\ last.op = "build"
    /\ ~last.force_rebuild
    /\ last.cached
    /\ cache.exists
    /\ cache.content # DumpCentroids(CentroidsFromCorpora(corpus))

-----------------------------------------------------------------------------
(* Properties of the feature vector (SpecFeatures) *)

HasToken(text, tok) == \E i \in 1..Len(text) : text[i] = tok
HasWordIn(text, vocabulary) ==
    \E i \in 1..Len(text) : ~IsSpace(text[i]) /\ Lower(text[i]) \in vocabulary

\* C11: for every text, extract_stylometric_features returns exactly 10 components,
\* each defined and >= 0, in the order function-word rate, sentence length,
\* type-token ratio, comma, period, exclamation, question, pronoun rate, reading
\* grade, word length: the component of a rate is above 0 exactly when the text has
\* what the rate counts.
C11_TenNonNegativeInOrder ==
    last.op = "features" =>
        LET f == last.ret
            text == last.text
            worded == ~StripIsEmpty(text)
        IN  /\ Len(f) = 10
            /\ \A i \in 1..10 : f[i] \in Nat
            /\ f[1] > 0 <=> HasWordIn(text, function_words)
            /\ f[2] > 0 <=> worded
            /\ f[3] > 0 <=> worded
            /\ f[4] > 0 <=> HasToken(text, <<",">>)
            /\ f[5] > 0 <=> HasToken(text, <<".">>)
            /\ f[6] > 0 <=> HasToken(text, <<"!">>)
            /\ f[7] > 0 <=> HasToken(text, <<"?">>)
            /\ f[8] > 0 <=> HasWordIn(text, pronouns)
            /\ f[10] > 0 <=> worded

\* a text whose reading grade is below 0 before the floor, with a function word
\* that is no pronoun and one punctuation mark
C11_Witness ==
    /\ last.op = "features"
    /\ last.text = <<The, <<"!">> >>
    /\ last.ret[1] > 0
    /\ last.ret[6] > 0
    /\ last.ret[8] = 0
    /\ last.ret[9] = 0

\* C12: for empty or whitespace-only text, extract_stylometric_features returns the
\* all-zero 10-vector and calls neither the sentence nor the word tokenizer.
C12_BlankTextZeroVectorNoTokenizer ==
    (last.op = "features" /\ \A i \in 1..Len(last.text) : IsSpace(last.text[i]))
        => /\ last.ret = <<0, 0, 0, 0, 0, 0, 0, 0, 0, 0>>
           /\ last.calls = <<>>

\* a text of whitespace only
C12_Witness ==
    /\ last.op = "features"
    /\ last.text = <<Space, Space>>
    /\ last.ret = <<0, 0, 0, 0, 0, 0, 0, 0, 0, 0>>

\* words per sentence / 50 and max(0, grade) / 20 of a text, to 1/FeatScale
RawSentenceLength(text) ==
    (Len(tokenize_words(text)) * FeatScale) \div (Len(tokenize_sentences(text)) * 50)

RawGrade(text) ==
    LET W == Len(tokenize_words(text))
        S == Len(tokenize_sentences(text))
        syl == SyllableCount(tokenize_words(text))
        num == 39 * W * W + 1180 * syl * S - 1559 * S * W
    IN  IF num <= 0 THEN 0 ELSE (num * FeatScale) \div (100 * S * W * 20)

C14_WordLengthClamped ==
    (last.op = "features" /\ ~StripIsEmpty(last.text))
        => LET words == tokenize_words(last.text)
               chars == SumSeq([i \in 1..Len(words) |-> Len(words[i])])
               raw == (chars * FeatScale) \div (Len(words) * 10)
           IN  /\ last.ret[10] = (IF raw <= FeatScale THEN raw ELSE FeatScale)
               /\ last.ret[10] <= FeatScale

\* the 15-letter word alone: mean length 15, the dimension is 1.0
C14_Witness ==
    /\ last.op = "features"
    /\ last.text = <<LongWord>>
    /\ last.ret[10] = FeatScale

-----------------------------------------------------------------------------
(* Properties of the lazily loaded models (SpecContent) *)

\* C15: each external model is load-attempted at most once per process.  In every
\* calculate_all_metrics call: a model that is loaded or failed stays as it is and
\* no load is tried for it; a load is tried only on a model that is unloaded and
\* leaves it either loaded or failed; the learned-quality scorer, when enabled and
\* unloaded, is loaded by the call; and no process ever counts two loads of a model.
\* (A call whose `import torch` raises does not get to use the embedding model.)
C15_LoadedAtMostOnce ==
    [][ last'.op = "metrics" =>
          /\ Len(loads'.bertscore) <= 1
          /\ Len(loads'.bleurt) <= 1
          /\ bertscore_model # Unloaded
                => bertscore_model' = bertscore_model /\ loads'.bertscore = loads.bertscore
          /\ bleurt_scorer # Unloaded
                => bleurt_scorer' = bleurt_scorer /\ loads'.bleurt = loads.bleurt
          /\ loads'.bertscore # loads.bertscore
                => bertscore_model = Unloaded /\ bertscore_model' \in {Loaded, Failed}
          /\ loads'.bleurt # loads.bleurt
                => bleurt_scorer = Unloaded /\ bleurt_scorer' \in {Loaded, Failed}
          /\ bertscore_model' # bertscore_model => Len(loads'.bertscore) = 1
          /\ (use_bleurt /\ bleurt_scorer = Unloaded)
                => bleurt_scorer' \in {Loaded, Failed} /\ Len(loads'.bleurt) = 1
      ]_vars

\* a later scoring call, with both sub-scorers on, that tried no load: the embedding
\* model had failed to load, the learned-quality scorer had loaded
C15_Witness ==
    /\ last.op = "metrics"
    /\ use_bertscore /\ use_bleurt
    /\ last.tried = NoLoads
    /\ loads = [bertscore |-> <<"failed">>, bleurt |-> <<"loaded">>]
    /\ bertscore_model = Failed
    /\ bleurt_scorer = Loaded

FailedLoad(history) == \E i \in 1..Len(history) : history[i] = "failed"

OthersReturned(metrics) ==
    /\ use_rouge => Present(metrics.rougeLsum_f)
    /\ metrics.src_tokens \in Nat
    /\ metrics.hyp_tokens \in Nat
    /\ metrics.gold_tokens \in Nat
    /\ metrics.content_quality \in Int

\* C16: once the load of a sub-scorer has failed in the process, every
\* calculate_all_metrics call returns None for that sub-score and still returns the
\* lexical score, the token counts and content_quality.
C16_FailedLoadIsPermanent ==
    last.op = "metrics" =>
        /\ FailedLoad(loads.bertscore)
              => last.metrics.bertscore_f1 = None /\ OthersReturned(last.metrics)
        /\ FailedLoad(loads.bleurt)
              => last.metrics.bleurt = None /\ OthersReturned(last.metrics)

\* a call after the embedding model failed to load, trying no load itself, that
\* returns the two other sub-scores
C16_Witness ==
    /\ last.op = "metrics"
    /\ last.tried = NoLoads
    /\ FailedLoad(loads.bertscore)
    /\ last.metrics.bertscore_f1 = None
    /\ Present(last.metrics.rougeLsum_f)
    /\ Present(last.metrics.bleurt)
    /\ last.metrics.content_quality > 0

\* C17: when the inference of a loaded sub-scorer raises, calculate_all_metrics
\* still returns, with None for that sub-score, and the model stays loaded; it is
\* still loaded after the next call, and the learned-quality scorer, still enabled,
\* then runs its inference again (giving a value, or raising again).
C17_InferenceFailureIsPerCall ==
    last.op = "metrics" =>
        /\ last.raised.bertscore
              => /\ last.metrics.bertscore_f1 = None
                 /\ bertscore_model = Loaded
                 /\ OthersReturned(last.metrics)
        /\ last.raised.bleurt
              => /\ last.metrics.bleurt = None
                 /\ bleurt_scorer = Loaded
                 /\ OthersReturned(last.metrics)
        /\ last.prev_raised.bertscore => bertscore_model = Loaded
        /\ last.prev_raised.bleurt
              => /\ bleurt_scorer = Loaded
                 /\ Present(last.metrics.bleurt) \/ last.raised.bleurt

\* both inferences raised in the call before, and both return a value in this one
C17_Witness ==
    /\ last.op = "metrics"
    /\ last.prev_raised.bertscore
    /\ last.prev_raised.bleurt
    /\ Present(last.metrics.bertscore_f1)
    /\ Present(last.metrics.bleurt)

-----------------------------------------------------------------------------
(* Properties of the token accounting (SpecTokens) *)

NumTokens(text) == Cardinality({i \in 1..Len(text) : ~IsSpace(text[i])})

\* C20: compression_ratio is the hypothesis token count divided by the source token
\* count, and 0 when the source has no token, for every source/hypothesis pair.
C20_CompressionRatio ==
    last.op = "metrics" =>
        LET src == NumTokens(last.source_text)
            hyp == NumTokens(last.hypothesis)
            ratio == last.metrics.compression_ratio
        IN  /\ last.metrics.src_tokens = src
            /\ last.metrics.hyp_tokens = hyp
            /\ ratio.den > 0
            /\ src = 0 => ratio.num = 0
            /\ src > 0 => ratio.num * src = hyp * ratio.den

\* a source of blanks only and a summary with tokens: the ratio is 0
C20_Witness ==
    /\ last.op = "metrics"
    /\ last.source_text = TextBlank
    /\ last.metrics.src_tokens = 0
    /\ last.metrics.hyp_tokens = 4
    /\ last.metrics.compression_ratio.num = 0

SameText == last.op = "metrics" /\ last.reference = last.hypothesis
RatioIsOne == last.metrics.compression_ratio.num = last.metrics.compression_ratio.den

\* C21 as stated: when reference and hypothesis are identical non-empty strings,
\* the lexical F-measure returned is 1.0 and compression_ratio is 1.0.
C21_IdenticalTextsScoreOne ==
    (SameText /\ last.hypothesis # TextEmpty) =>
        /\ last.metrics.rougeLsum_f = Some(ScoreGrid)
        /\ RatioIsOne

\* C21: when reference and hypothesis are the same string and it has a word, the
\* lexical F-measure returned is 1.0, and compression_ratio is 1.0 exactly when the
\* source document has as many tokens as the hypothesis.
C21_IdenticalTextsWithWords ==
    (SameText /\ RougeTokens(last.hypothesis) # <<>>) =>
        /\ last.metrics.rougeLsum_f = Some(ScoreGrid)
        /\ RatioIsOne <=> NumTokens(last.source_text) = NumTokens(last.hypothesis)

\* "The cat sat." as reference and hypothesis of a 9-token source: F 1.0, ratio 4/9
C21_Witness ==
    /\ SameText
    /\ last.hypothesis = TextA
    /\ last.source_text = TextB
    /\ last.metrics.rougeLsum_f = Some(ScoreGrid)
    /\ last.metrics.compression_ratio = [num |-> 4, den |-> 9]

-----------------------------------------------------------------------------
(* Properties of the aggregation (SpecAggregates) *)

SixStatistics == {"mean", "median", "std", "min", "max", "count"}

AllSix(group) == \A c \in DOMAIN group : DOMAIN group[c] = SixStatistics

\* C18: calculate_aggregates gives every group (overall, each persona, each sector,
\* each source model), for every numeric metric, all six statistics mean, median,
\* std, min, max and count.  The code gives five, four, two and two of them.
C18_SixStatisticsPerGroup ==
    (last.op = "aggregates" /\ ~last.ret.raised) =>
        /\ AllSix(last.ret.overall)
        /\ \A p \in DOMAIN last.ret.by_persona : AllSix(last.ret.by_persona[p])
        /\ \A x \in DOMAIN last.ret.by_sector : AllSix(last.ret.by_sector[x])
        /\ \A x \in DOMAIN last.ret.by_model : AllSix(last.ret.by_model[x])

\* mean, median and count of the metric that may be missing, where the group has
\* them, are the same in both
SameCentre(before, after) ==
    \A c \in DOMAIN before \cap {"style_similarity"} :
        /\ c \in DOMAIN after
        /\ \A st \in {"mean", "median", "count"} \cap DOMAIN before[c] :
              st \in DOMAIN after[c] /\ after[c][st] = before[c][st]

SameCentres(before, after) ==
    \A g \in DOMAIN before : g \in DOMAIN after /\ SameCentre(before[g], after[g])

PresentIn(rows, persona) ==
    {i \in 1..Len(rows) : rows[i].persona = persona /\ ~rows[i].style_similarity.isNone}

RECURSIVE SumOver(_, _)
SumOver(rows, indices) ==
    IF indices = {} THEN 0
    ELSE LET i == CHOOSE j \in indices : TRUE
         IN  rows[i].style_similarity.val + SumOver(rows, indices \ {i})

\* C19: missing values are excluded from the statistics, not counted as 0: the
\* aggregates of a list whose last item lacks the metric have, in every group the
\* list without that item has, the same mean, median and count of the metric; and
\* a persona's count is the number of its items that have the metric, its mean
\* their sum divided by that number.
C19_MissingValuesExcluded ==
    (last.op = "aggregates" /\ ~last.ret.raised) =>
        /\ (Len(results) >= 2 /\ results[Len(results)].style_similarity = None)
              => LET before == calculate_aggregates(SubSeq(results, 1, Len(results) - 1))
                 IN  /\ SameCentre(before.overall, last.ret.overall)
                     /\ SameCentres(before.by_persona, last.ret.by_persona)
                     /\ SameCentres(before.by_sector, last.ret.by_sector)
                     /\ SameCentres(before.by_model, last.ret.by_model)
        /\ \A p \in DOMAIN last.ret.by_persona :
              \A c \in DOMAIN last.ret.by_persona[p] \cap {"style_similarity"} :
                  LET stats == last.ret.by_persona[p][c]
                      n == Cardinality(PresentIn(results, p))
                  IN  /\ stats["count"] = Some(n)
                      /\ n > 0 => stats["mean"].val * n
                                     = SumOver(results, PresentIn(results, p)) * MeanDen

\* a persona with the values 1, 2, 3 and a fourth item without the metric:
\* mean 2.0, median 2.0, count 3
C19_Witness ==
    /\ last.op = "aggregates"
    /\ Len(results) = 4
    /\ \A i \in 1..4 : results[i].persona = "journalist"
    /\ \A i \in 1..3 : results[i].style_similarity = Some(i)
    /\ results[4].style_similarity = None
    /\ last.ret.by_persona["journalist"]["style_similarity"]
          = [mean |-> Some(2 * MeanDen), median |-> Some(2 * MeanDen),
             std |-> Some(MeanDen), count |-> Some(3)]

\* the sum, over the groups of a grouping, of the count of overall_quality
RECURSIVE CountSum(_)
CountSum(groups) ==
    IF DOMAIN groups = {} THEN 0
    ELSE LET g == CHOOSE x \in DOMAIN groups : TRUE
         IN  groups[g]["overall_quality"]["count"].val
                 + CountSum([x \in DOMAIN groups \ {g} |-> groups[x]])

RowsWith(rows, key) == {i \in 1..Len(rows) : rows[i][key] # ""}

RECURSIVE QualitySum(_)
QualitySum(rows) ==
    IF rows = <<>> THEN 0 ELSE Head(rows).overall_quality + QualitySum(Tail(rows))

\* C30: the persona groups partition the results: the groups are the personas that
\* occur, and the per-persona counts of overall_quality, which no result lacks, sum
\* to total_items, the number of results.  A result with an empty sector (source
\* model) is in no by_sector (by_model) group, the counts of those groups summing to
\* the number of results that have one, and is still part of the overall
\* statistics, whose mean is taken over all results.
C30_PersonaGroupsPartition ==
    (last.op = "aggregates" /\ ~last.ret.raised) =>
        /\ last.ret.total_items = Len(results)
        /\ DOMAIN last.ret.by_persona = {results[i].persona : i \in 1..Len(results)}
        /\ CountSum(last.ret.by_persona) = last.ret.total_items
        /\ "" \notin DOMAIN last.ret.by_sector
        /\ "" \notin DOMAIN last.ret.by_model
        /\ CountSum(last.ret.by_sector) = Cardinality(RowsWith(results, "sector"))
        /\ CountSum(last.ret.by_model) = Cardinality(RowsWith(results, "model_used"))
        /\ last.ret.overall["overall_quality"]["mean"].val * Len(results)
               = QualitySum(results) * MeanDen

\* two results with a sector and no source model, one with a source model and no
\* sector: persona counts 2 + 1, one sector group of 2, one model group of 1
C30_Witness ==
    /\ last.op = "aggregates"
    /\ Len(results) = 3
    /\ last.ret.total_items = 3
    /\ DOMAIN last.ret.by_persona = {"formal_analyst", "journalist"}
    /\ last.ret.by_persona["formal_analyst"]["overall_quality"]["count"] = Some(2)
    /\ last.ret.by_persona["journalist"]["overall_quality"]["count"] = Some(1)
    /\ DOMAIN last.ret.by_sector = {"tech"}
    /\ last.ret.by_sector["tech"]["overall_quality"]["count"] = Some(2)
    /\ DOMAIN last.ret.by_model = {"gpt"}
    /\ last.ret.by_model["gpt"]["overall_quality"]["count"] = Some(1)

-----------------------------------------------------------------------------
(* Properties of the batch run (SpecMain) *)

\* the first n results are the results of the first n records, in order
ResultsOfRecords(rows, n) ==
    /\ Len(rows) = n
    /\ \A k \in 1..n : /\ rows[k].file = main.records[k].source_file
                        /\ rows[k].persona = main.records[k].persona

\* C22: the batch run scores the loaded records one at a time and in order: item i
\* is scored only when the results of items 1..i-1 have been appended, and the
\* results passed to calculate_aggregates are one per loaded record, in their order.
C22_OneResultPerRecordInOrder ==
    /\ main.pc = "loop" => ResultsOfRecords(results, main.i)
    /\ main.pc = "append" =>
            /\ ResultsOfRecords(results, main.i - 1)
            /\ main.result.val.file = main.records[main.i].source_file
    /\ last.op = "main_score" => last.appended = last.i - 1
    /\ last.op = "main_aggregate" => ResultsOfRecords(last.results, Len(main.records))

\* three records of two personas loaded and scored, their three results aggregated
C22_Witness ==
    /\ last.op = "main_aggregate"
    /\ main.pc = "done"
    /\ Len(main.records) = 3
    /\ Len(last.results) = 3
    /\ last.results[1].persona # last.results[3].persona
    /\ last.ret.total_items = 3

\* no directory, no *.json file in it, or only files that are skipped as malformed
FatalInput ==
    \/ ~data_dir.exists
    \/ \A name \in DOMAIN data_dir.files : data_dir.files[name] = Malformed

NothingScored ==
    /\ results = <<>>
    /\ main.result = None
    /\ main.pc \notin {"append", "done"}
    /\ last.op # "main_score"

RecordFiles == {name \in DOMAIN data_dir.files : data_dir.files[name].kind = "object"}
BadFiles == DOMAIN data_dir.files \ RecordFiles
SourceFiles(rows) == [k \in 1..Len(rows) |-> rows[k].file]

\* C24 as stated: a file that cannot be read as a record, malformed or not
\* decodable, is skipped with a warning and the run goes on: the records loaded are
\* those of all the other files in file-name order, and each of them is scored.
C24_BadFilesSkipped ==
    (data_dir.exists /\ RecordFiles # {}) =>
        /\ main.pc # "aborted"
        /\ last.op = "main_load" =>
                /\ last.warnings = Sorted(BadFiles)
                /\ [k \in 1..Len(main.records) |-> main.records[k].source_file]
                       = Sorted(RecordFiles)
        /\ main.pc = "done" => SourceFiles(results) = Sorted(RecordFiles)

-----------------------------------------------------------------------------
(* Further properties of the style analyzer (SpecStyle) *)

\* the chunks of a corpus file that hold a token, in order
NonEmptyChunks(file) ==
    SelectSeq(file.content, LAMBDA chunk : \E i \in 1..Len(chunk) : ~IsSpace(chunk[i]))

\* the sum of dimension d of the feature vectors of these chunks, one vector each
RECURSIVE FeatureSum(_, _)
FeatureSum(chunks, d) ==
    IF chunks = <<>> THEN 0
    ELSE Features(Strip(Head(chunks)))[d] + FeatureSum(Tail(chunks), d)

ReadingBuild == last.op = "build" /\ (last.force_rebuild \/ ~last.cached)

\* C25: in a build that reads corpora, the centroid of each persona is, dimension by
\* dimension, the sum of one feature vector per chunk of its corpus that is not
\* blank, divided by the number of such chunks; a corpus with one such chunk has
\* that chunk's feature vector as centroid.
C25_CentroidIsMeanOfSamples ==
    ReadingBuild =>
        \A p \in DOMAIN last.ret :
            LET chunks == NonEmptyChunks(corpus[p])
                centroid == tolist(last.ret[p])
            IN  /\ Len(chunks) > 0
                /\ DOMAIN centroid = 1..NumFeatures
                /\ \A d \in 1..NumFeatures :
                        centroid[d] = FeatureSum(chunks, d) \div Len(chunks)
                /\ Len(chunks) = 1 => centroid = Features(Strip(chunks[1]))

\* one persona with two samples around a blank chunk, whose centroid is neither
\* sample's vector, the other persona with a single sample
C25_Witness ==
    /\ ReadingBuild
    /\ DOMAIN last.ret = personas
    /\ Len(corpus["formal_analyst"].content) = 3
    /\ Len(NonEmptyChunks(corpus["formal_analyst"])) = 2
    /\ tolist(last.ret["formal_analyst"]) \notin {Features(TextA), Features(TextB)}
    /\ corpus["journalist"] = File(<<TextA>>)
    /\ tolist(last.ret["journalist"]) = Features(TextA)

CachedBuild == last.op = "build" /\ ~last.force_rebuild /\ last.cached

\* C26: after a build that reads corpora the cache file holds exactly the map the
\* build returned, whatever it held before; and every build without force_rebuild
\* that finds the cache file, in this or a later process, returns the map that the
\* newest corpus-reading build returned.
C26_CacheHoldsReturnedMap ==
    /\ ReadingBuild =>
            /\ cache.exists
            /\ DOMAIN cache.content = DOMAIN last.ret
            /\ \A p \in DOMAIN last.ret : cache.content[p] = tolist(last.ret[p])
            /\ written = Some(last.ret)
    /\ CachedBuild => Present(written) /\ last.ret = written.val

\* a later process, configured with one persona only and finding other corpora,
\* gets from the cache the two centroids an earlier build returned
C26_Witness ==
    /\ CachedBuild
    /\ persona_config = {"formal_analyst"}
    /\ DOMAIN last.ret = personas
    /\ last.ret = written.val
    /\ corpus["journalist"] = Missing
    /\ corpus["formal_analyst"] = File(<<TextBlank>>)

\* the step is a calculate_style_similarity call that returns early
EarlyReturnStep ==
    /\ last'.op = "similarity"
    /\ ~use_style \/ last'.persona_id = NoPersona

\* C28: a calculate_style_similarity call that returns early, style scoring being
\* off or the persona being None, returns None, runs no centroid build, reads no
\* corpus and leaves the centroids in memory and the cache file as they were, also
\* when no centroid was ever built.
C28_EarlyReturnHasNoEffect ==
    [][ EarlyReturnStep =>
            /\ last'.ret = None
            /\ ~last'.built
            /\ last'.read = {}
            /\ centroids' = centroids
            /\ cache' = cache
            /\ everBuilt' = everBuilt ]_vars

\* scoring is off and nothing was ever built: a call for a configured persona whose
\* corpus has a sample leaves no centroid and no cache file
C28_Witness ==
    /\ last.op = "similarity"
    /\ ~use_style
    /\ last.persona_id \in persona_config
    /\ HasSample(corpus[last.persona_id])
    /\ ~everBuilt
    /\ centroids = EmptyCentroids
    /\ ~cache.exists

\* a calculate_style_similarity call that did not return early
ScoringCall ==
    last.op = "similarity" /\ use_style /\ last.persona_id # NoPersona

\* C29: while a cache file exists, a build without force_rebuild returns and keeps
\* centroids for exactly the keys of the cache, and every similarity call that does
\* not return early has a value exactly for those keys, whatever personas are
\* configured and whatever their corpora hold now: a configured persona with a
\* sample in its corpus but no key in the cache gets None, a cached persona that is
\* not configured gets a value.
C29_AvailableAreCacheKeys ==
    /\ CachedBuild =>
            /\ DOMAIN last.ret = DOMAIN cache.content
            /\ DOMAIN centroids = DOMAIN cache.content
    /\ (ScoringCall /\ cache.exists) =>
            (Present(last.ret) <=> last.persona_id \in DOMAIN cache.content)

\* the cache holds a persona that is no longer configured, and not the configured
\* one, whose corpus has a sample by now: the call for the former has a value
C29_Witness ==
    /\ ScoringCall
    /\ cache.exists
    /\ persona_config = {"formal_analyst"}
    /\ HasSample(corpus["formal_analyst"])
    /\ DOMAIN cache.content = {"journalist"}
    /\ last.persona_id = "journalist"
    /\ Present(last.ret)

-----------------------------------------------------------------------------
(* Further properties of the content calculator (SpecContent) *)

\* C27: a sub-scorer switched off by the configuration is never loaded: while
\* use_bertscore (use_bleurt) is false every calculate_all_metrics call returns None
\* for that sub-score and tries no load, and its model stays unloaded, whatever the
\* other switches are and whatever the other sub-scorers' loads and scores give.
C27_DisabledNeverLoaded ==
    /\ ~use_bertscore =>
            /\ bertscore_model = Unloaded
            /\ loads.bertscore = <<>>
            /\ last.op = "metrics" =>
                    last.metrics.bertscore_f1 = None /\ last.tried.bertscore = <<>>
    /\ ~use_bleurt =>
            /\ bleurt_scorer = Unloaded
            /\ loads.bleurt = <<>>
            /\ last.op = "metrics" =>
                    last.metrics.bleurt = None /\ last.tried.bleurt = <<>>

\* BERTScore off and BLEURT on: a call that follows the one that loaded BLEURT
\* scores with BLEURT, and the BERTScore model is still unloaded
C27_Witness ==
    /\ ~use_bertscore
    /\ use_bleurt
    /\ last.op = "metrics"
    /\ last.tried.bleurt = <<>>
    /\ loads.bleurt = <<"loaded">>
    /\ Present(last.metrics.bleurt)
    /\ last.metrics.bertscore_f1 = None
    /\ bertscore_model = Unloaded

====
